---- MODULE Spec2Model ----
(***************************************************************************)
(* Campaign dispatch engine of the email-marketing application.            *)
(*                                                                         *)
(* The store (prisma) holds campaigns, recipients, CampaignRecipient rows  *)
(* and tracking events.  EmailService.sendCampaign is an async function:   *)
(* every `await` of a store or transport call is a point where another     *)
(* invocation (or a route handler) may run, so each awaited call is one    *)
(* action of the model.                                                    *)
(***************************************************************************)
EXTENDS Integers, Sequences, FiniteSets, TLC

\* ---------------------------------------------------------------- bounds
NumRecipients == 2      \* recipients in the store
NumCalls == 2           \* invocations of EmailService.sendCampaign
MaxRequests == 1        \* accepted requests to the HTTP routes
MaxTextLen == 3         \* pieces of a template text

Campaigns == {"c1", "c2"}
Recipients == 1..NumRecipients
Calls == 1..NumCalls

CampaignStatus == {"draft", "scheduled", "sending", "sent", "failed"}
RowStatus == {"pending", "sent", "failed", "skipped"}
RecipientStatus == {"active", "unsubscribed", "bounced"}
EventTypes == {"open", "click", "bounce", "unsubscribe"}

VARIABLES
    campStatus,   \* campaign.status per campaign id, "absent" when no such record
    campSentAt,   \* campaign.sentAt is set
    campContent,  \* the content resolved for the campaign: "text", or "null" when missing
    cr,           \* CampaignRecipient rows: cr[c][r] = [status, sentAt], status "none" = no row
    recipStatus,  \* recipient.status
    tracking,     \* EmailTracking records, in creation order
    transporter,  \* EmailService.transporter: "ready" or "null"
    pc,           \* position of each sendCampaign invocation
    camp,         \* its campaignId argument
    audience,     \* campaign.campaignRecipients as loaded by findUnique
    idx,          \* position of the for-loop in audience
    sent,         \* local counter `sent`
    failed,       \* local counter `failed`
    emailSent,    \* outcome of the transport call being recorded
    err,          \* the error the invocation is throwing
    result,       \* the value the invocation returned
    out,          \* history: what this run did for each recipient
    wrote,        \* history: the row status this run wrote for each recipient
    attempts,     \* history: transporter.sendMail calls of each invocation per recipient
    requests,     \* accepted route requests so far
    timers,       \* pending setTimeout callbacks of POST /:id/send, per campaign
    statusWrites, \* history: the campaign statuses each invocation wrote, in order
    beaconStatus, \* HTTP status answered to the retrieval of an embedded beacon URL
    content,      \* personalizeContent / addTrackingPixel: the text passed in
    rcpt,         \* personalizeContent: the recipient passed in
    trackIds,     \* addTrackingPixel: the campaignId and recipientId passed in
    stage,        \* which string operation has been applied to content
    text1,        \* its result
    text2         \* the result of applying it to text1 again

storeVars == <<campStatus, campSentAt, cr, recipStatus, tracking>>
callVars == <<pc, camp, audience, idx, sent, failed, emailSent, err, result, out, wrote,
              statusWrites>>
textVars == <<content, rcpt, trackIds, stage, text1, text2>>
serviceVars == <<campStatus, campSentAt, campContent, cr, recipStatus, tracking, transporter,
                 pc, camp, audience, idx, sent, failed, emailSent, err, result,
                 out, wrote, attempts, requests, timers, statusWrites, beaconStatus>>
vars == <<serviceVars, textVars>>

NoRow == [status |-> "none", sentAt |-> FALSE]
PendingRow == [status |-> "pending", sentAt |-> FALSE]
NoResult == [sent |-> -1, failed |-> -1]

\* ------------------------------------------------------------ helpers

\* sendCampaign's status precondition
CanBeSent(status) == status \in {"scheduled", "draft"}

\* variant: only bounced recipients are skipped
IsActiveOrUnsubscribed(rstatus) == rstatus # "bounced"

\* the loop's eligibility test (`recipient.status !== 'active'` skips)
IsActive(rstatus) == rstatus = "active"

\* findUnique's include: the pending rows of the campaign joined with their recipient
RECURSIVE PendingFrom(_, _)
PendingFrom(c, r) ==
    IF r > NumRecipients THEN <<>>
    ELSE IF cr[c][r].status = "pending"
         THEN <<[recipientId |-> r, status |-> recipStatus[r]]>> \o PendingFrom(c, r + 1)
         ELSE PendingFrom(c, r + 1)

PendingRows(c) == PendingFrom(c, 1)

\* prisma.campaignRecipient.updateMany data clause: sentAt is written only for 'sent'
RowUpdate(row, status) ==
    IF row.status = "none" THEN row
    ELSE [status |-> status, sentAt |-> IF status = "sent" THEN TRUE ELSE row.sentAt]

\* variant: a run in which no transmission succeeded ends failed
FinalStatusByCounts(nSent, nFailed) == IF nSent = 0 /\ nFailed > 0 THEN "failed" ELSE "sent"

\* the status written after the loop
FinalStatus(nSent, nFailed) == "sent"

\* the status written by the catch block
CatchStatus == "failed"

\* variant: every attempt is counted as sent
NextSentAlways(n, ok) == n + 1

\* `if (emailSent) { sent++ } else { failed++ }`
NextSent(n, ok) == IF ok THEN n + 1 ELSE n

NextFailed(n, ok) == IF ok THEN n ELSE n + 1

\* the for-of loop: next element or fall through to the final update
LoopPc(aud, i) == IF i > Len(aud) THEN "finalize" ELSE "loop"


\* ------------------------------------------------------------ string operations
\* A text is a sequence of pieces: a placeholder, the closing body tag, or a
\* run of other characters.  No piece is a fragment of a placeholder, so a
\* regular-expression match is a match of one whole piece.

Placeholders == {"{{firstName}}", "{{lastName}}", "{{email}}", "{{fullName}}",
                 "{{unsubscribeUrl}}"}
BodyClose == "</body>"
TemplatePieces == Placeholders \cup {"{{customVar}}", "Hi ", BodyClose}

AppUrl == "http://localhost:3000"

RECURSIVE TextsOfLen(_)
TextsOfLen(n) ==
    IF n = 0 THEN {<<>>}
    ELSE {Append(t, x) : t \in TextsOfLen(n - 1), x \in TemplatePieces}

Texts == UNION {TextsOfLen(n) : n \in 0..MaxTextLen}

\* a nullable string column: null, or a text
Null == [null |-> TRUE, text |-> <<>>]
Value(t) == [null |-> FALSE, text |-> t]

\* recipients: names unset, plain, holding a `$&` replacement pattern, or
\* holding placeholder text
RecipientData ==
    [id : {"r1"}, email : {<<"ana@example.com">>},
     firstName : {Null, Value(<<"Ana">>), Value(<<"Ana", "$&">>), Value(<<"{{firstName}}">>)},
     lastName : {Null, Value(<<"Lee">>)}]

\* `undefined`, the empty string and a real id
IdValues == {"undefined", "", "id1"}

\* `recipient.firstName || ''`
OrEmpty(field) == IF field.null THEN <<>> ELSE field.text

\* String.prototype.replace expands `$&` in the replacement string to the
\* matched substring and `$$` to `$`
RECURSIVE ExpandReplacement(_, _)
ExpandReplacement(repl, matched) ==
    IF repl = <<>> THEN <<>>
    ELSE (IF Head(repl) = "$&" THEN <<matched>>
          ELSE IF Head(repl) = "$$" THEN <<"$">>
          ELSE <<Head(repl)>>) \o ExpandReplacement(Tail(repl), matched)

\* text.replace(/pattern/g, repl)
RECURSIVE ReplaceAll(_, _, _)
ReplaceAll(text, pattern, repl) ==
    IF text = <<>> THEN <<>>
    ELSE (IF Head(text) = pattern THEN ExpandReplacement(repl, pattern) ELSE <<Head(text)>>)
         \o ReplaceAll(Tail(text), pattern, repl)

\* text.replace('pattern', repl): the first occurrence only
RECURSIVE ReplaceFirst(_, _, _)
ReplaceFirst(text, pattern, repl) ==
    IF text = <<>> THEN <<>>
    ELSE IF Head(text) = pattern THEN ExpandReplacement(repl, pattern) \o Tail(text)
    ELSE <<Head(text)>> \o ReplaceFirst(Tail(text), pattern, repl)

\* String.prototype.trim on a text whose only white space is the piece " "
RECURSIVE TrimLeft(_)
TrimLeft(t) == IF t # <<>> /\ Head(t) = " " THEN TrimLeft(Tail(t)) ELSE t

RECURSIVE TrimRight(_)
TrimRight(t) ==
    IF t # <<>> /\ t[Len(t)] = " " THEN TrimRight(SubSeq(t, 1, Len(t) - 1)) ELSE t

Trim(t) == TrimRight(TrimLeft(t))

\* `${APP_URL}/unsubscribe?token=${recipient.id}`
UnsubscribeUrl(recipient) == AppUrl \o "/unsubscribe?token=" \o recipient.id

\* personalizeContent, last replacement: the unsubscribe link
UnsubscribeLink(text, recipient) ==
    ReplaceAll(text, "{{unsubscribeUrl}}", <<UnsubscribeUrl(recipient)>>)

\* EmailService.personalizeContent
PersonalizeContent(text, recipient) ==
    LET t1 == ReplaceAll(text, "{{firstName}}", OrEmpty(recipient.firstName))
        t2 == ReplaceAll(t1, "{{lastName}}", OrEmpty(recipient.lastName))
        t3 == ReplaceAll(t2, "{{email}}", recipient.email)
        t4 == ReplaceAll(t3, "{{fullName}}",
                         Trim(OrEmpty(recipient.firstName) \o <<" ">>
                              \o OrEmpty(recipient.lastName)))
    IN UnsubscribeLink(t4, recipient)

\* `!campaignId`
Falsy(id) == id \in {"undefined", ""}

TrackingUrl(campaignId, recipientId) ==
    AppUrl \o "/api/analytics/track?campaignId=" \o campaignId
           \o "&recipientId=" \o recipientId \o "&eventType=open"

TrackingPixel(campaignId, recipientId) ==
    "<img src=\"" \o TrackingUrl(campaignId, recipientId)
                  \o "\" width=\"1\" height=\"1\" style=\"display:none;\" alt=\"\" />"

Includes(text, piece) == \E i \in 1..Len(text) : text[i] = piece

\* variant: the pixel is added as soon as a campaignId is given
AddTrackingPixelCampaignOnly(text, campaignId, recipientId) ==
    IF Falsy(campaignId) THEN text
    ELSE IF Includes(text, BodyClose)
         THEN ReplaceFirst(text, BodyClose, <<TrackingPixel(campaignId, recipientId), BodyClose>>)
         ELSE Append(text, TrackingPixel(campaignId, recipientId))

\* EmailService.addTrackingPixel
AddTrackingPixel(text, campaignId, recipientId) ==
    IF Falsy(campaignId) \/ Falsy(recipientId) THEN text
    ELSE IF Includes(text, BodyClose)
         THEN ReplaceFirst(text, BodyClose, <<TrackingPixel(campaignId, recipientId), BodyClose>>)
         ELSE Append(text, TrackingPixel(campaignId, recipientId))

\* ------------------------------------------------------------ initial state

\* no string operation under way
NoRecipient == [id |-> "none", email |-> <<>>, firstName |-> Null, lastName |-> Null]
NoIds == [campaignId |-> "undefined", recipientId |-> "undefined"]

TextIdle ==
    /\ content = <<>>
    /\ rcpt = NoRecipient
    /\ trackIds = NoIds
    /\ stage = "idle"
    /\ text1 = <<>>
    /\ text2 = <<>>

\* c1 is a draft whose audience is every recipient or none (the empty audience);
\* c2, when it exists, is scheduled with recipient 1 as its audience.
\* c1 may have been created from a template without content of its own and
\* resolve to no content.
Init ==
    /\ campStatus \in {[c \in Campaigns |-> IF c = "c1" THEN "draft" ELSE s] :
                          s \in {"scheduled", "absent"}}
    /\ campSentAt = [c \in Campaigns |-> FALSE]
    /\ campContent \in {[c \in Campaigns |-> IF c = "c1" THEN t ELSE "text"] :
                           t \in {"text", "null"}}
    /\ \E k \in {0, NumRecipients} :
          cr = [c \in Campaigns |-> [r \in Recipients |->
                   IF campStatus[c] = "absent" THEN NoRow
                   ELSE IF r > (IF c = "c1" THEN k ELSE 1) THEN NoRow
                   ELSE PendingRow]]
    /\ recipStatus \in [Recipients -> {"active", "unsubscribed"}]
    /\ tracking = <<>>
    /\ transporter \in {"ready", "null"}
    /\ pc = [p \in Calls |-> "idle"]
    /\ camp = [p \in Calls |-> "none"]
    /\ audience = [p \in Calls |-> <<>>]
    /\ idx = [p \in Calls |-> 0]
    /\ sent = [p \in Calls |-> 0]
    /\ failed = [p \in Calls |-> 0]
    /\ emailSent = [p \in Calls |-> FALSE]
    /\ err = [p \in Calls |-> "none"]
    /\ result = [p \in Calls |-> NoResult]
    /\ out = [p \in Calls |-> [r \in Recipients |-> "none"]]
    /\ wrote = [p \in Calls |-> [r \in Recipients |-> "none"]]
    /\ attempts = [p \in Calls |-> [r \in Recipients |-> 0]]
    /\ requests = 0
    /\ timers = [c \in Campaigns |-> 0]
    /\ statusWrites = [p \in Calls |-> <<>>]
    /\ beaconStatus = 0
    /\ TextIdle

\* ------------------------------------------------------------ EmailService.sendCampaign

\* findUnique with the pending rows, then the two precondition checks.
\* Invocations are started in the order of their number (they are interchangeable).
FindCampaign(p, c) ==
    /\ pc[p] = "idle"
    /\ \A q \in Calls : q < p => pc[q] # "idle"
    /\ camp' = [camp EXCEPT ![p] = c]
    /\ IF campStatus[c] = "absent"
       THEN /\ err' = [err EXCEPT ![p] = "Campaign not found"]
            /\ pc' = [pc EXCEPT ![p] = "catch"]
            /\ UNCHANGED <<audience, idx>>
       ELSE IF ~CanBeSent(campStatus[c])
       THEN /\ err' = [err EXCEPT ![p] = "Campaign cannot be sent in current status"]
            /\ pc' = [pc EXCEPT ![p] = "catch"]
            /\ UNCHANGED <<audience, idx>>
       ELSE /\ audience' = [audience EXCEPT ![p] = PendingRows(c)]
            /\ idx' = [idx EXCEPT ![p] = 1]
            /\ pc' = [pc EXCEPT ![p] = "setSending"]
            /\ UNCHANGED err
    /\ UNCHANGED <<storeVars, transporter, sent, failed, emailSent, result, out, wrote,
                   attempts, requests, timers>>
    /\ UNCHANGED <<statusWrites, beaconStatus, campContent, textVars>>

\* variant: the loop is entered without the status having been written
UpdateSendingOmitted(p) ==
    /\ pc[p] = "setSending"
    /\ pc' = [pc EXCEPT ![p] = LoopPc(audience[p], idx[p])]
    /\ UNCHANGED <<storeVars, transporter, camp, audience, idx, sent, failed, emailSent, err,
                   result, out, wrote, attempts, requests, timers, statusWrites>>
    /\ UNCHANGED <<beaconStatus, campContent, textVars>>

\* prisma.campaign.update({status: 'sending', sentAt: new Date()});
\* update of a record that no longer exists rejects, which lands in the catch block
UpdateSending(p) ==
    /\ pc[p] = "setSending"
    /\ IF campStatus[camp[p]] = "absent"
       THEN /\ err' = [err EXCEPT ![p] = "Record to update not found"]
            /\ pc' = [pc EXCEPT ![p] = "catch"]
            /\ UNCHANGED <<campStatus, campSentAt, statusWrites>>
       ELSE /\ campStatus' = [campStatus EXCEPT ![camp[p]] = "sending"]
            /\ statusWrites' = [statusWrites EXCEPT ![p] = Append(@, "sending")]
            /\ campSentAt' = [campSentAt EXCEPT ![camp[p]] = TRUE]
            /\ pc' = [pc EXCEPT ![p] = LoopPc(audience[p], idx[p])]
            /\ UNCHANGED err
    /\ UNCHANGED <<cr, recipStatus, tracking, transporter, camp, audience, idx, sent, failed,
                   emailSent, result, out, wrote, attempts, requests, timers>>
    /\ UNCHANGED <<beaconStatus, campContent, textVars>>

\* variant: updateMany filters on recipientId only, the rows of every campaign are written
SkipRecipientEveryCampaign(p) ==
    /\ pc[p] = "loop"
    /\ LET rcp == audience[p][idx[p]] IN
       /\ ~IsActive(rcp.status)
       /\ cr' = [c \in Campaigns |-> [cr[c] EXCEPT ![rcp.recipientId] = RowUpdate(@, "skipped")]]
       /\ out' = [out EXCEPT ![p][rcp.recipientId] = "skipped"]
       /\ wrote' = [wrote EXCEPT ![p][rcp.recipientId] = "skipped"]
    /\ idx' = [idx EXCEPT ![p] = @ + 1]
    /\ pc' = [pc EXCEPT ![p] = LoopPc(audience[p], idx[p] + 1)]
    /\ UNCHANGED <<campStatus, campSentAt, recipStatus, tracking, transporter, camp, audience,
                   sent, failed, emailSent, err, result, attempts, requests, timers>>
    /\ UNCHANGED <<statusWrites, beaconStatus, campContent, textVars>>

\* loop body, skip branch: updateCampaignRecipientStatus(..., 'skipped'); continue
SkipRecipient(p) ==
    /\ pc[p] = "loop"
    /\ LET rcp == audience[p][idx[p]] IN
       /\ ~IsActive(rcp.status)
       /\ cr' = [cr EXCEPT ![camp[p]][rcp.recipientId] = RowUpdate(@, "skipped")]
       /\ out' = [out EXCEPT ![p][rcp.recipientId] = "skipped"]
       /\ wrote' = [wrote EXCEPT ![p][rcp.recipientId] = "skipped"]
    /\ idx' = [idx EXCEPT ![p] = @ + 1]
    /\ pc' = [pc EXCEPT ![p] = LoopPc(audience[p], idx[p] + 1)]
    /\ UNCHANGED <<campStatus, campSentAt, recipStatus, tracking, transporter, camp, audience,
                   sent, failed, emailSent, err, result, attempts, requests, timers>>
    /\ UNCHANGED <<statusWrites, beaconStatus, campContent, textVars>>

\* personalizeContent(emailContent, recipient) with no content: `content.replace`
\* throws a TypeError, outside sendEmail's try block and inside sendCampaign's
PersonalizeThrows(p) ==
    /\ pc[p] = "loop"
    /\ campContent[camp[p]] = "null"
    /\ LET rcp == audience[p][idx[p]] IN
       /\ IsActive(rcp.status)
       /\ out' = [out EXCEPT ![p][rcp.recipientId] = "threw"]
    /\ err' = [err EXCEPT ![p] = "TypeError"]
    /\ pc' = [pc EXCEPT ![p] = "catch"]
    /\ UNCHANGED <<storeVars, transporter, camp, audience, idx, sent, failed, emailSent,
                   result, wrote, attempts, requests, timers>>
    /\ UNCHANGED <<statusWrites, beaconStatus, campContent, textVars>>

\* sendEmail with no transporter: returns false at once; the loop counts it as failed
SendEmailNoTransporter(p) ==
    /\ pc[p] = "loop"
    /\ campContent[camp[p]] # "null"
    /\ transporter = "null"
    /\ LET rcp == audience[p][idx[p]] IN
       /\ IsActive(rcp.status)
       /\ out' = [out EXCEPT ![p][rcp.recipientId] = "notransport"]
    /\ emailSent' = [emailSent EXCEPT ![p] = FALSE]
    /\ failed' = [failed EXCEPT ![p] = NextFailed(@, FALSE)]
    /\ pc' = [pc EXCEPT ![p] = "delay"]
    /\ UNCHANGED <<storeVars, transporter, camp, audience, idx, sent, err, result, wrote,
                   attempts, requests, timers>>
    /\ UNCHANGED <<statusWrites, beaconStatus, campContent, textVars>>

\* variant: a rejected sendMail is rethrown out of sendEmail into sendCampaign's catch
SendMailRethrows(p, ok) ==
    /\ pc[p] = "loop"
    /\ campContent[camp[p]] # "null"
    /\ transporter = "ready"
    /\ LET rcp == audience[p][idx[p]] IN
       /\ IsActive(rcp.status)
       /\ out' = [out EXCEPT ![p][rcp.recipientId] = IF ok THEN "sent" ELSE "failed"]
       /\ attempts' = [attempts EXCEPT ![p][rcp.recipientId] = @ + 1]
    /\ emailSent' = [emailSent EXCEPT ![p] = ok]
    /\ pc' = [pc EXCEPT ![p] = IF ok THEN "record" ELSE "catch"]
    /\ err' = [err EXCEPT ![p] = IF ok THEN @ ELSE "sendMail rejected"]
    /\ UNCHANGED <<storeVars, transporter, camp, audience, idx, sent, failed, result,
                   wrote, requests, timers>>
    /\ UNCHANGED <<statusWrites, beaconStatus, campContent, textVars>>

\* variant: sendEmail is not awaited, the loop goes on while the row is unwritten
SendMailNotAwaited(p, ok) ==
    /\ pc[p] = "loop"
    /\ campContent[camp[p]] # "null"
    /\ transporter = "ready"
    /\ LET rcp == audience[p][idx[p]] IN
       /\ IsActive(rcp.status)
       /\ out' = [out EXCEPT ![p][rcp.recipientId] = IF ok THEN "sent" ELSE "failed"]
       /\ attempts' = [attempts EXCEPT ![p][rcp.recipientId] = @ + 1]
    /\ emailSent' = [emailSent EXCEPT ![p] = ok]
    /\ pc' = [pc EXCEPT ![p] = "delay"]
    /\ UNCHANGED <<storeVars, transporter, camp, audience, idx, sent, failed, err, result,
                   wrote, requests, timers>>
    /\ UNCHANGED <<statusWrites, beaconStatus, campContent, textVars>>

\* sendEmail: transporter.sendMail resolves (ok) or rejects (~ok)
SendMail(p, ok) ==
    /\ pc[p] = "loop"
    /\ campContent[camp[p]] # "null"
    /\ transporter = "ready"
    /\ LET rcp == audience[p][idx[p]] IN
       /\ IsActive(rcp.status)
       /\ out' = [out EXCEPT ![p][rcp.recipientId] = IF ok THEN "sent" ELSE "failed"]
       /\ attempts' = [attempts EXCEPT ![p][rcp.recipientId] = @ + 1]
    /\ emailSent' = [emailSent EXCEPT ![p] = ok]
    /\ pc' = [pc EXCEPT ![p] = "record"]
    /\ UNCHANGED <<storeVars, transporter, camp, audience, idx, sent, failed, err, result,
                   wrote, requests, timers>>
    /\ UNCHANGED <<statusWrites, beaconStatus, campContent, textVars>>

\* variant: the delay is taken on the success branch only
RecordOutcomeNoDelayOnFailure(p) ==
    /\ pc[p] = "record"
    /\ LET rcp == audience[p][idx[p]]
           st == IF emailSent[p] THEN "sent" ELSE "failed" IN
       /\ cr' = [cr EXCEPT ![camp[p]][rcp.recipientId] = RowUpdate(@, st)]
       /\ wrote' = [wrote EXCEPT ![p][rcp.recipientId] = st]
    /\ sent' = [sent EXCEPT ![p] = NextSent(@, emailSent[p])]
    /\ failed' = [failed EXCEPT ![p] = NextFailed(@, emailSent[p])]
    /\ idx' = [idx EXCEPT ![p] = IF emailSent[p] THEN @ ELSE @ + 1]
    /\ pc' = [pc EXCEPT ![p] = IF emailSent[p] THEN "delay"
                               ELSE LoopPc(audience[p], idx[p] + 1)]
    /\ UNCHANGED <<campStatus, campSentAt, recipStatus, tracking, transporter, camp, audience,
                   emailSent, err, result, out, attempts, requests, timers>>
    /\ UNCHANGED <<statusWrites, beaconStatus, campContent, textVars>>

\* sendEmail: updateCampaignRecipientStatus('sent' | 'failed'), return emailSent;
\* the loop then increments sent or failed
RecordOutcome(p) ==
    /\ pc[p] = "record"
    /\ LET rcp == audience[p][idx[p]]
           st == IF emailSent[p] THEN "sent" ELSE "failed" IN
       /\ cr' = [cr EXCEPT ![camp[p]][rcp.recipientId] = RowUpdate(@, st)]
       /\ wrote' = [wrote EXCEPT ![p][rcp.recipientId] = st]
    /\ sent' = [sent EXCEPT ![p] = NextSent(@, emailSent[p])]
    /\ failed' = [failed EXCEPT ![p] = NextFailed(@, emailSent[p])]
    /\ pc' = [pc EXCEPT ![p] = "delay"]
    /\ UNCHANGED <<campStatus, campSentAt, recipStatus, tracking, transporter, camp, audience,
                   idx, emailSent, err, result, out, attempts, requests, timers>>
    /\ UNCHANGED <<statusWrites, beaconStatus, campContent, textVars>>

\* variant: the promise of the delay is never resolved
DelayNeverResolves(p) ==
    /\ pc[p] = "delay"
    /\ UNCHANGED vars

\* await new Promise(resolve => setTimeout(resolve, 100)), then the next element
Delay(p) ==
    /\ pc[p] = "delay"
    /\ idx' = [idx EXCEPT ![p] = @ + 1]
    /\ pc' = [pc EXCEPT ![p] = LoopPc(audience[p], idx[p] + 1)]
    /\ UNCHANGED <<storeVars, transporter, camp, audience, sent, failed, emailSent, err,
                   result, out, wrote, attempts, requests, timers>>
    /\ UNCHANGED <<statusWrites, beaconStatus, campContent, textVars>>

\* prisma.campaign.update({status: 'sent'}); return {sent, failed}
Finalize(p) ==
    /\ pc[p] = "finalize"
    /\ IF campStatus[camp[p]] = "absent"
       THEN /\ err' = [err EXCEPT ![p] = "Record to update not found"]
            /\ pc' = [pc EXCEPT ![p] = "catch"]
            /\ UNCHANGED <<campStatus, result, statusWrites>>
       ELSE /\ campStatus' = [campStatus EXCEPT ![camp[p]] = FinalStatus(sent[p], failed[p])]
            /\ statusWrites' = [statusWrites EXCEPT ![p] =
                                   Append(@, FinalStatus(sent[p], failed[p]))]
            /\ result' = [result EXCEPT ![p] = [sent |-> sent[p], failed |-> failed[p]]]
            /\ pc' = [pc EXCEPT ![p] = "returned"]
            /\ UNCHANGED err
    /\ UNCHANGED <<campSentAt, cr, recipStatus, tracking, transporter, camp, audience, idx,
                   sent, failed, emailSent, out, wrote, attempts, requests, timers>>
    /\ UNCHANGED <<beaconStatus, campContent, textVars>>

\* catch block: prisma.campaign.update({status: 'failed'}); throw error.
\* When the campaign record does not exist the update itself rejects and that
\* rejection replaces the error being handled.
Catch(p) ==
    /\ pc[p] = "catch"
    /\ IF campStatus[camp[p]] = "absent"
       THEN /\ err' = [err EXCEPT ![p] = "Record to update not found"]
            /\ UNCHANGED <<campStatus, statusWrites>>
       ELSE /\ campStatus' = [campStatus EXCEPT ![camp[p]] = CatchStatus]
            /\ statusWrites' = [statusWrites EXCEPT ![p] = Append(@, CatchStatus)]
            /\ UNCHANGED err
    /\ pc' = [pc EXCEPT ![p] = "thrown"]
    /\ UNCHANGED <<campSentAt, cr, recipStatus, tracking, transporter, camp, audience, idx,
                   sent, failed, emailSent, result, out, wrote, attempts, requests, timers>>
    /\ UNCHANGED <<beaconStatus, campContent, textVars>>

Next ==
    \/ \E p \in Calls, c \in Campaigns : FindCampaign(p, c)
    \/ \E p \in Calls : UpdateSending(p)
    \/ \E p \in Calls : SkipRecipient(p)
    \/ \E p \in Calls : PersonalizeThrows(p)
    \/ \E p \in Calls : SendEmailNoTransporter(p)
    \/ \E p \in Calls, ok \in BOOLEAN : SendMail(p, ok)
    \/ \E p \in Calls : RecordOutcome(p)
    \/ \E p \in Calls : Delay(p)
    \/ \E p \in Calls : Finalize(p)
    \/ \E p \in Calls : Catch(p)

Spec == Init /\ [][Next]_vars

\* the steps of invocation p after its findUnique has returned
RunStep(p) ==
    \/ UpdateSending(p)
    \/ SkipRecipient(p)
    \/ PersonalizeThrows(p)
    \/ SendEmailNoTransporter(p)
    \/ \E ok \in BOOLEAN : SendMail(p, ok)
    \/ RecordOutcome(p)
    \/ Delay(p)
    \/ Finalize(p)
    \/ Catch(p)

\* every awaited store call, transport call and timer of a started invocation
\* eventually settles, so the invocation takes its next step
SpecFair == Spec /\ \A p \in Calls : WF_vars(RunStep(p))

TypeOK ==
    /\ campStatus \in [Campaigns -> CampaignStatus \cup {"absent"}]
    /\ \A c \in Campaigns, r \in Recipients : cr[c][r].status \in RowStatus \cup {"none"}
    /\ recipStatus \in [Recipients -> RecipientStatus]
    /\ \A p \in Calls : idx[p] \in 0..(NumRecipients + 1)
    /\ \A p \in Calls, r \in Recipients : attempts[p][r] \in 0..1
    /\ requests \in 0..MaxRequests

\* ------------------------------------------------------------ HTTP routes
\* A request that a handler answers with 4xx changes nothing and is not a step.

\* PUT /api/campaigns/:id.  validateRequest strips keys the schema does not
\* know, emailListIds among them, so the handler never rebuilds the rows:
\* it rewrites the campaign fields and sets status from scheduledAt.
PutCampaign(c, scheduledAt) ==
    /\ requests < MaxRequests
    /\ campStatus[c] # "absent"
    /\ campStatus[c] # "sent"
    /\ campStatus' = [campStatus EXCEPT ![c] = IF scheduledAt THEN "scheduled" ELSE "draft"]
    /\ requests' = requests + 1
    /\ UNCHANGED <<campSentAt, cr, recipStatus, tracking, transporter, callVars, attempts, timers>>
    /\ UNCHANGED <<beaconStatus, campContent, textVars>>

\* DELETE /api/campaigns/:id; the rows and tracking records go with the campaign (cascade)
DeleteCampaign(c) ==
    /\ requests < MaxRequests
    /\ campStatus[c] # "absent"
    /\ campStatus[c] # "sent"
    /\ campStatus' = [campStatus EXCEPT ![c] = "absent"]
    /\ campSentAt' = [campSentAt EXCEPT ![c] = FALSE]
    /\ cr' = [cr EXCEPT ![c] = [r \in Recipients |-> NoRow]]
    /\ tracking' = SelectSeq(tracking, LAMBDA e : e.campaignId # c)
    /\ requests' = requests + 1
    /\ UNCHANGED <<recipStatus, transporter, callVars, attempts, timers>>
    /\ UNCHANGED <<beaconStatus, campContent, textVars>>

\* POST /api/campaigns/:id/send: status 'sending', and a timer that will mark it sent
PostSend(c) ==
    /\ requests < MaxRequests
    /\ campStatus[c] # "absent"
    /\ campStatus[c] # "sent"
    /\ \E r \in Recipients : cr[c][r].status # "none"
    /\ campStatus' = [campStatus EXCEPT ![c] = "sending"]
    /\ campSentAt' = [campSentAt EXCEPT ![c] = TRUE]
    /\ timers' = [timers EXCEPT ![c] = @ + 1]
    /\ requests' = requests + 1
    /\ UNCHANGED <<cr, recipStatus, tracking, transporter, callVars, attempts>>
    /\ UNCHANGED <<beaconStatus, campContent, textVars>>

\* the setTimeout callback of POST /:id/send: update({status: 'sent'});
\* on a deleted campaign the update rejects and nothing is written
SendTimer(c) ==
    /\ timers[c] > 0
    /\ timers' = [timers EXCEPT ![c] = @ - 1]
    /\ campStatus' = [campStatus EXCEPT ![c] = IF @ = "absent" THEN @ ELSE "sent"]
    /\ UNCHANGED <<campSentAt, cr, recipStatus, tracking, transporter, callVars, attempts, requests>>
    /\ UNCHANGED <<beaconStatus, campContent, textVars>>

\* POST /api/analytics/track with a valid body
Track(c, r, eventType) ==
    /\ requests < MaxRequests
    /\ campStatus[c] # "absent"
    /\ tracking' = Append(tracking, [campaignId |-> c, recipientId |-> r, eventType |-> eventType])
    /\ recipStatus' = [recipStatus EXCEPT ![r] =
                          IF eventType = "bounce" THEN "bounced"
                          ELSE IF eventType = "unsubscribe" THEN "unsubscribed"
                          ELSE @]
    /\ requests' = requests + 1
    /\ UNCHANGED <<campStatus, campSentAt, cr, transporter, callVars, attempts, timers>>
    /\ UNCHANGED <<beaconStatus, campContent, textVars>>

\* the method and path patterns the analytics router registers handlers for
AnalyticsRoutes ==
    {<<"GET", "/overview">>, <<"GET", "/campaigns/:id">>, <<"GET", "/email-lists/:id">>,
     <<"POST", "/track">>, <<"GET", "/compare">>}

\* a one-segment path matches only the pattern equal to it
HasHandler(method, path) == <<method, path>> \in AnalyticsRoutes

\* The mail client retrieves the image URL of a delivered message:
\* GET /api/analytics/track?campaignId=c&recipientId=r&eventType=open.
\* Every request to the router first passes authenticateToken, which either
\* answers with a rejection status or hands the request on; a request handed on
\* finds no handler for GET /track and is answered 404.  No record is created.
FetchBeacon(c, r, authenticated, rejectStatus) ==
    /\ beaconStatus = 0
    /\ \E p \in Calls : camp[p] = c /\ out[p][r] = "sent"
    /\ ~HasHandler("GET", "/track")
    /\ beaconStatus' = IF authenticated THEN 404 ELSE rejectStatus
    /\ UNCHANGED <<storeVars, campContent, transporter, callVars, attempts, requests, timers,
                   textVars>>

Routes ==
    \/ \E c \in Campaigns, scheduledAt \in BOOLEAN : PutCampaign(c, scheduledAt)
    \/ \E c \in Campaigns : DeleteCampaign(c)
    \/ \E c \in Campaigns : PostSend(c)
    \/ \E c \in Campaigns : SendTimer(c)
    \/ \E c \in Campaigns, r \in Recipients, eventType \in EventTypes : Track(c, r, eventType)
    \/ \E c \in Campaigns, r \in Recipients, authenticated \in BOOLEAN,
          rejectStatus \in {401, 403} : FetchBeacon(c, r, authenticated, rejectStatus)

NextApp == Next \/ Routes

SpecApp == Init /\ [][NextApp]_vars

\* ------------------------------------------------------------ the string operations applied

\* the service at rest while a string operation is exercised
ServiceIdle ==
    /\ campStatus = [c \in Campaigns |-> IF c = "c1" THEN "draft" ELSE "absent"]
    /\ campSentAt = [c \in Campaigns |-> FALSE]
    /\ campContent = [c \in Campaigns |-> "text"]
    /\ cr = [c \in Campaigns |-> [r \in Recipients |-> NoRow]]
    /\ recipStatus = [r \in Recipients |-> "active"]
    /\ tracking = <<>>
    /\ transporter = "ready"
    /\ pc = [p \in Calls |-> "idle"]
    /\ camp = [p \in Calls |-> "none"]
    /\ audience = [p \in Calls |-> <<>>]
    /\ idx = [p \in Calls |-> 0]
    /\ sent = [p \in Calls |-> 0]
    /\ failed = [p \in Calls |-> 0]
    /\ emailSent = [p \in Calls |-> FALSE]
    /\ err = [p \in Calls |-> "none"]
    /\ result = [p \in Calls |-> NoResult]
    /\ out = [p \in Calls |-> [r \in Recipients |-> "none"]]
    /\ wrote = [p \in Calls |-> [r \in Recipients |-> "none"]]
    /\ attempts = [p \in Calls |-> [r \in Recipients |-> 0]]
    /\ requests = 0
    /\ timers = [c \in Campaigns |-> 0]
    /\ statusWrites = [p \in Calls |-> <<>>]
    /\ beaconStatus = 0

\* the arguments of personalizeContent, or those of addTrackingPixel
InitText ==
    /\ ServiceIdle
    /\ content \in Texts
    /\ text1 = <<>>
    /\ text2 = <<>>
    /\ \/ /\ stage = "personalizeInput"
          /\ rcpt \in RecipientData
          /\ trackIds = NoIds
       \/ /\ stage = "pixelInput"
          /\ rcpt = NoRecipient
          /\ trackIds \in [campaignId : IdValues, recipientId : IdValues]

Personalize ==
    /\ stage = "personalizeInput"
    /\ text1' = PersonalizeContent(content, rcpt)
    /\ stage' = "personalized"
    /\ UNCHANGED <<serviceVars, content, rcpt, trackIds, text2>>

\* personalizeContent applied to its own output
PersonalizeAgain ==
    /\ stage = "personalized"
    /\ text2' = PersonalizeContent(text1, rcpt)
    /\ stage' = "personalizedTwice"
    /\ UNCHANGED <<serviceVars, content, rcpt, trackIds, text1>>

\* the unsubscribe substitution on its own
LinkUnsubscribe ==
    /\ stage = "personalizeInput"
    /\ text1' = UnsubscribeLink(content, rcpt)
    /\ stage' = "linked"
    /\ UNCHANGED <<serviceVars, content, rcpt, trackIds, text2>>

LinkUnsubscribeAgain ==
    /\ stage = "linked"
    /\ text2' = UnsubscribeLink(text1, rcpt)
    /\ stage' = "linkedTwice"
    /\ UNCHANGED <<serviceVars, content, rcpt, trackIds, text1>>

\* sendEmail's `html: this.addTrackingPixel(options.html, options.campaignId, options.recipientId)`
AddPixel ==
    /\ stage = "pixelInput"
    /\ text1' = AddTrackingPixel(content, trackIds.campaignId, trackIds.recipientId)
    /\ stage' = "tracked"
    /\ UNCHANGED <<serviceVars, content, rcpt, trackIds, text2>>

\* addTrackingPixel applied to its own output
AddPixelAgain ==
    /\ stage = "tracked"
    /\ text2' = AddTrackingPixel(text1, trackIds.campaignId, trackIds.recipientId)
    /\ stage' = "trackedTwice"
    /\ UNCHANGED <<serviceVars, content, rcpt, trackIds, text1>>

\* sendTestEmail: sendEmail without campaignId and recipientId
SendTestEmail ==
    /\ stage = "pixelInput"
    /\ transporter # "null"
    /\ text1' = AddTrackingPixel(content, "undefined", "undefined")
    /\ stage' = "testEmail"
    /\ UNCHANGED <<serviceVars, content, rcpt, trackIds, text2>>

NextText ==
    \/ Personalize
    \/ PersonalizeAgain
    \/ LinkUnsubscribe
    \/ LinkUnsubscribeAgain
    \/ AddPixel
    \/ AddPixelAgain
    \/ SendTestEmail

SpecText == InitText /\ [][NextText]_vars

TypeOKText ==
    /\ stage \in {"personalizeInput", "personalized", "personalizedTwice", "linked",
                  "linkedTwice", "pixelInput", "tracked", "trackedTwice", "testEmail"}
    /\ content \in Texts
    /\ trackIds \in [campaignId : IdValues, recipientId : IdValues]
    /\ rcpt \in RecipientData \cup {NoRecipient}

\* ------------------------------------------------------------ properties

\* the invocation got past both precondition checks
Passed(p) == idx[p] >= 1

\* the invocation is between its precondition check and its return or throw
InRun(p) == pc[p] \in {"setSending", "loop", "record", "delay", "finalize"}

\* the invocation has returned or thrown
Ended(p) == pc[p] \in {"returned", "thrown"}

\* recipient id of the k-th loaded row
Rcp(p, k) == audience[p][k].recipientId

\* the loop has left the k-th loaded row behind
PastRow(p, k) == idx[p] > k

\* number of loaded rows of invocation p whose outcome is in S
CountOut(p, S) == Cardinality({k \in 1..Len(audience[p]) : out[p][Rcp(p, k)] \in S})

\* transporter.sendMail calls for (c, r) summed over invocations 1..p
RECURSIVE AttemptsUpTo(_, _, _)
AttemptsUpTo(c, r, p) ==
    IF p = 0 THEN 0
    ELSE AttemptsUpTo(c, r, p - 1) + (IF camp[p] = c THEN attempts[p][r] ELSE 0)

TotalAttempts(c, r) == AttemptsUpTo(c, r, NumCalls)

\* C1: a call rejected for the campaign's status (InvalidState) makes no
\* status write and no transmission: the step in which it throws leaves the
\* campaign statuses, the rows and the transport call counts as they were.
C1_RejectedCallWritesNothing ==
    [][\A p \in Calls :
          (pc[p] = "catch" /\ err[p] = "Campaign cannot be sent in current status"
             /\ pc'[p] = "thrown")
          => (campStatus' = campStatus /\ cr' = cr /\ attempts' = attempts)]_vars

\* C2: of the concurrent calls on one campaign at most one is past the
\* status check and in its send loop.
C2_AtMostOneCallInRun ==
    \A c \in Campaigns : Cardinality({p \in Calls : camp[p] = c /\ InRun(p)}) <= 1

\* C3: each (campaign, recipient) pair gets at most one transmission attempt
\* over all dispatch calls.
C3_AtMostOneAttemptPerPair ==
    \A c \in Campaigns, r \in Recipients : TotalAttempts(c, r) <= 1

AllowedTransitions ==
    { <<"draft", "scheduled">>, <<"draft", "sending">>, <<"scheduled", "sending">>,
      <<"sending", "sent">>, <<"sending", "failed">> }

\* C4: every change of a campaign's status follows
\* draft|scheduled -> sending -> sent|failed (draft -> scheduled included).
C4_StatusTransitions ==
    [][\A c \in Campaigns :
          (campStatus[c] # "absent" /\ campStatus'[c] # "absent"
             /\ campStatus'[c] # campStatus[c])
          => <<campStatus[c], campStatus'[c]>> \in AllowedTransitions]_vars

\* C5: when a run that passed its preconditions has returned or thrown, every
\* row it loaded as pending is sent, failed or skipped.
C5_NoRowLeftPending ==
    \A p \in Calls :
        (Passed(p) /\ Ended(p)) =>
            \A k \in 1..Len(audience[p]) :
                cr[camp[p]][Rcp(p, k)].status \in {"sent", "failed", "skipped"}

\* C6: a loaded row whose recipient was not active when loaded gets the
\* skipped write of this run and no transport call of this run.
C6_InactiveSkipped ==
    \A p \in Calls : \A k \in 1..Len(audience[p]) :
        audience[p][k].status # "active" =>
            /\ attempts[p][Rcp(p, k)] = 0
            /\ out[p][Rcp(p, k)] \in {"none", "skipped"}
            /\ PastRow(p, k) => (wrote[p][Rcp(p, k)] = "skipped" /\ out[p][Rcp(p, k)] = "skipped")

C6_Witness ==
    \E p \in Calls : \E k, j \in 1..Len(audience[p]) :
        /\ pc[p] = "returned"
        /\ audience[p][k].status # "active"
        /\ wrote[p][Rcp(p, k)] = "skipped"
        /\ attempts[p][Rcp(p, j)] = 1

\* C7: after a transport failure for one recipient the run goes on: the
\* failure is recorded as that row's failed write, every active recipient later
\* in the loaded audience has been attempted once the loop is over, and the only
\* error such a run can still throw is the store's missing-record error.
C7_FailureIsolated ==
    \A p \in Calls : \A k \in 1..Len(audience[p]) :
        out[p][Rcp(p, k)] = "failed" =>
            /\ pc[p] \in {"catch", "thrown"} => err[p] = "Record to update not found"
            /\ (pc[p] = "delay" \/ PastRow(p, k)) => wrote[p][Rcp(p, k)] = "failed"
            /\ pc[p] \in {"finalize", "returned"} =>
                  \A j \in (k + 1)..Len(audience[p]) :
                      audience[p][j].status = "active" => attempts[p][Rcp(p, j)] = 1

C7_Witness ==
    \E p \in Calls : \E k, j \in 1..Len(audience[p]) :
        /\ pc[p] = "returned"
        /\ k < j
        /\ out[p][Rcp(p, k)] = "failed"
        /\ wrote[p][Rcp(p, k)] = "failed"
        /\ out[p][Rcp(p, j)] = "sent"

\* C8: with no usable transporter a run that passed its preconditions and
\* loaded an active recipient ends by throwing, with the campaign failed and no
\* transmission attempted.
C8_NoTransporterAborts ==
    \A p \in Calls :
        (transporter = "null" /\ Passed(p) /\ Ended(p)
           /\ \E k \in 1..Len(audience[p]) : audience[p][k].status = "active") =>
            /\ pc[p] = "thrown"
            /\ campStatus[camp[p]] = "failed"
            /\ \A r \in Recipients : attempts[p][r] = 0

\* C9: the step that ends a run whose loop went through the whole loaded
\* audience writes status sent and returns the two counters, whatever they are.
C9_CompletedRunIsSent ==
    [][\A p \in Calls :
          (pc[p] = "finalize" /\ pc'[p] # "finalize") =>
              /\ pc'[p] = "returned"
              /\ campStatus'[camp[p]] = "sent"
              /\ result'[p] = [sent |-> sent[p], failed |-> failed[p]]]_vars

C9_Witness ==
    \E p \in Calls :
        /\ pc[p] = "returned"
        /\ result[p].sent = 0
        /\ result[p].failed = Len(audience[p])
        /\ Len(audience[p]) >= 2
        /\ campStatus[camp[p]] = "sent"

\* C10: the result of a returned run counts the recipients whose sendEmail
\* succeeded as sent and those whose sendEmail failed as failed; skipped
\* recipients are in neither, and the three add up to the loaded rows.
C10_ResultCounts ==
    \A p \in Calls :
        pc[p] = "returned" =>
            /\ result[p].sent = CountOut(p, {"sent"})
            /\ result[p].failed = CountOut(p, {"failed", "notransport"})
            /\ result[p].sent + result[p].failed + CountOut(p, {"skipped"})
                  = Len(audience[p])

C10_Witness ==
    \E p \in Calls :
        /\ pc[p] = "returned"
        /\ result[p].sent = 1
        /\ result[p].failed = 0
        /\ CountOut(p, {"skipped"}) = 1

\* C11: a call whose loaded set of pending rows is empty is rejected: it
\* writes no campaign status and returns no result.
C11_EmptyAudienceRejected ==
    \A p \in Calls :
        (Passed(p) /\ Len(audience[p]) = 0) =>
            /\ statusWrites[p] = <<>>
            /\ result[p] = NoResult

\* C12: a call with the id of a campaign that is not in the store throws
\* 'Campaign not found', having written nothing and transmitted nothing.
C12_NotFoundSurfaced ==
    \A p \in Calls :
        (pc[p] = "thrown" /\ campStatus[camp[p]] = "absent") =>
            /\ err[p] = "Campaign not found"
            /\ statusWrites[p] = <<>>
            /\ \A r \in Recipients : attempts[p][r] = 0 /\ wrote[p][r] = "none"

\* number of times invocation p wrote campaign status st
WritesOf(p, st) == Cardinality({i \in DOMAIN statusWrites[p] : statusWrites[p][i] = st})

\* C13: a run writes status sending exactly once, and that write is its first
\* status write and precedes its first transport call.
C13_SendingOnceBeforeTransport ==
    \A p \in Calls :
        /\ WritesOf(p, "sending") <= 1
        /\ (pc[p] \in {"loop", "record", "delay", "finalize", "returned"}
              \/ \E r \in Recipients : attempts[p][r] > 0 \/ out[p][r] # "none")
           => (WritesOf(p, "sending") = 1 /\ Head(statusWrites[p]) = "sending")

C13_Witness ==
    \E p \in Calls : \E r \in Recipients :
        /\ attempts[p][r] = 1
        /\ pc[p] = "record"
        /\ statusWrites[p] = <<"sending">>

\* C14: the status of a CampaignRecipient row changes only from pending; a
\* row that is sent, failed or skipped is not changed again.
C14_RowWrittenOnce ==
    [][\A c \in Campaigns, r \in Recipients :
          (cr[c][r].status # "none" /\ cr'[c][r].status # "none" /\ cr'[c][r] # cr[c][r])
          => cr[c][r].status = "pending"]_vars

\* C15: a campaign whose status is sent, sending or failed is neither edited
\* (status set back to draft or scheduled by PUT) nor deleted, and its rows stay.
C15_NoEditOrDeleteOnceSending ==
    [][\A c \in Campaigns :
          campStatus[c] \in {"sent", "sending", "failed"} =>
              /\ campStatus'[c] \notin {"draft", "scheduled", "absent"}
              /\ \A r \in Recipients : cr[c][r].status # "none" => cr'[c][r].status # "none"]_vars

\* ------------------------------------------------------------ string operations: properties

LeavesPlaceholder(text) == \E i \in 1..Len(text) : text[i] \in Placeholders

\* C16: the output of personalizeContent contains no occurrence of
\* {{firstName}}, {{lastName}}, {{fullName}}, {{email}} or {{unsubscribeUrl}},
\* whatever the template text and the recipient's fields are.
C16_NoPlaceholderLeft ==
    stage = "personalized" => ~LeavesPlaceholder(text1)

\* C17: personalization is idempotent: personalizeContent applied to its own
\* output with the same recipient returns that output.
C17_PersonalizeIdempotent ==
    stage = "personalizedTwice" => text2 = text1

\* the beacon, for any pair of ids it can have been built from
Beacons == {TrackingPixel(c, r) : c \in IdValues, r \in IdValues}

BeaconCount(text) == Cardinality({i \in 1..Len(text) : text[i] \in Beacons})

BothSupplied(ids) == ~Falsy(ids.campaignId) /\ ~Falsy(ids.recipientId)

\* C18: the output of addTrackingPixel contains the beacon if and only if both
\* campaignId and recipientId are supplied; when either is absent, and in
\* sendTestEmail, the content is returned unchanged.
C18_BeaconIffBothIds ==
    /\ stage = "tracked" =>
          /\ (BeaconCount(text1) > 0) <=> BothSupplied(trackIds)
          /\ BothSupplied(trackIds) =>
                Includes(text1, TrackingPixel(trackIds.campaignId, trackIds.recipientId))
          /\ ~BothSupplied(trackIds) => text1 = content
    /\ stage = "testEmail" => text1 = content

C18_Witness ==
    /\ stage = "tracked"
    /\ trackIds.campaignId = "id1"
    /\ Falsy(trackIds.recipientId)
    /\ Includes(content, BodyClose)
    /\ text1 = content

\* C19 as stated: addTrackingPixel applied twice with the same ids yields the
\* content of one application, with exactly one beacon, and the unsubscribe
\* substitution applied twice equals applying it once.
C19_InstrumentationIdempotent ==
    /\ (stage = "trackedTwice" /\ BothSupplied(trackIds)) =>
          (text2 = text1 /\ BeaconCount(text2) = 1)
    /\ stage = "linkedTwice" => text2 = text1

\* ------------------------------------------------------------ beacon retrieval

OpenEvents(c, r) ==
    Cardinality({i \in DOMAIN tracking :
                    tracking[i] = [campaignId |-> c, recipientId |-> r, eventType |-> "open"]})

\* C20: retrieving the beacon URL embedded in a delivered message is answered
\* with a 2xx status and appends an open tracking event for that campaign and
\* recipient.
C20_BeaconRetrievalRecorded ==
    beaconStatus # 0 =>
        /\ beaconStatus \in 200..299
        /\ \E c \in Campaigns, r \in Recipients : OpenEvents(c, r) > 0

\* ------------------------------------------------------------ the loop: further properties

\* C21: an error raised while personalizing the content for one recipient is
\* that recipient's failure: its row is marked failed, the run goes on (it does
\* not enter its catch block) and does not write status failed because of it.
C21_PersonalizeErrorIsolated ==
    \A p \in Calls : \A r \in Recipients :
        out[p][r] = "threw" =>
            /\ pc[p] \notin {"catch", "thrown"}
            /\ wrote[p][r] = "failed"
            /\ WritesOf(p, "failed") = 0

\* C22: when the outcome of a transport call is recorded the row matches it:
\* sent with a sent timestamp after a success, failed with no sent timestamp
\* after a failure; and no row is sent without a successful transport call
\* for that campaign and recipient.
C22_RowMatchesOutcome ==
    [][/\ \A p \in Calls :
             (pc[p] = "record" /\ pc'[p] = "delay") =>
                 cr'[camp[p]][Rcp(p, idx[p])] =
                     IF emailSent[p] THEN [status |-> "sent", sentAt |-> TRUE]
                     ELSE [status |-> "failed", sentAt |-> FALSE]
       /\ \A c \in Campaigns, r \in Recipients :
             cr'[c][r].status = "sent" =>
                 \E p \in Calls : camp'[p] = c /\ out'[p][r] = "sent"]_vars

\* C23: within a run the loop moves on from a recipient it made a transport
\* call for, successful or not, only through the throttle delay, and the
\* recording of an attempt is followed by the delay; it moves on from a
\* skipped recipient without a delay.
C23_DelayAfterEveryAttempt ==
    [][\A p \in Calls :
          /\ (idx[p] >= 1 /\ idx'[p] = idx[p] + 1) =>
                /\ attempts[p][Rcp(p, idx[p])] > 0 => pc[p] = "delay"
                /\ out'[p][Rcp(p, idx[p])] = "skipped" => pc[p] = "loop"
          /\ (pc[p] = "record" /\ pc'[p] # "record") => pc'[p] = "delay"]_vars

C23_Witness ==
    \E p \in Calls :
        /\ Len(audience[p]) >= 2
        /\ idx[p] = 2
        /\ pc[p] = "loop"
        /\ out[p][Rcp(p, 1)] = "failed"
        /\ attempts[p][Rcp(p, 1)] = 1

\* the invocation takes up the loaded row at its loop position
TakesUpRow(p) == out'[p] # out[p]

\* C24: a run handles one recipient at a time: when it takes up a row, every
\* earlier row has its outcome, the status write of every earlier transport
\* call has been made, and no later row has been touched.
C24_OneRecipientAtATime ==
    [][\A p \in Calls :
          TakesUpRow(p) =>
              /\ out'[p][Rcp(p, idx[p])] # out[p][Rcp(p, idx[p])]
              /\ \A j \in 1..(idx[p] - 1) :
                    /\ out[p][Rcp(p, j)] # "none"
                    /\ attempts[p][Rcp(p, j)] > 0 => wrote[p][Rcp(p, j)] \in {"sent", "failed"}
              /\ \A j \in idx[p]..Len(audience[p]) :
                    /\ attempts[p][Rcp(p, j)] = 0
                    /\ out[p][Rcp(p, j)] = "none"
                    /\ wrote[p][Rcp(p, j)] = "none"]_vars

C24_Witness ==
    \E p \in Calls :
        /\ Len(audience[p]) >= 2
        /\ idx[p] = 2
        /\ pc[p] = "record"
        /\ attempts[p][Rcp(p, 2)] = 1
        /\ wrote[p][Rcp(p, 1)] \in {"sent", "failed"}

\* C25: within one run the transport is called at most once per recipient,
\* and a run that has returned has called it exactly once for every loaded
\* row whose recipient is active.
C25_ExactlyOneAttempt ==
    \A p \in Calls :
        /\ \A r \in Recipients : attempts[p][r] <= 1
        /\ pc[p] = "returned" =>
              \A k \in 1..Len(audience[p]) :
                  audience[p][k].status = "active" => attempts[p][Rcp(p, k)] = 1

\* C26: whenever a campaign's status is sent, none of its rows is pending.
C26_SentHasNoPendingRow ==
    \A c \in Campaigns :
        campStatus[c] = "sent" => \A r \in Recipients : cr[c][r].status # "pending"

\* C27: a transport call is made for a recipient only while the recipient's
\* status in the store is active.
C27_NoSendToInactive ==
    [][\A p \in Calls, r \in Recipients :
          attempts'[p][r] > attempts[p][r] => recipStatus[r] = "active"]_vars

\* rows of invocation p that it wrote with status st
WroteCount(p, st) == Cardinality({r \in Recipients : wrote[p][r] = st})

\* C28: the counts a run returns agree with the rows it wrote: sent is the
\* number of rows it marked sent, failed the number of rows it marked failed.
C28_CountsMatchRows ==
    \A p \in Calls :
        pc[p] = "returned" =>
            /\ result[p].sent = WroteCount(p, "sent")
            /\ result[p].failed = WroteCount(p, "failed")

\* invocation p takes the step
StepOf(p) ==
    <<pc[p], idx[p], out[p], wrote[p], err[p]>>' # <<pc[p], idx[p], out[p], wrote[p], err[p]>>

\* C29: a step of a run on campaign c changes only c's status and sentAt and
\* c's rows: the status, sentAt and rows of every other campaign, every
\* recipient's status and the tracking records are left as they were.
C29_RunWritesOwnCampaignOnly ==
    [][(\E p \in Calls : StepOf(p)) =>
          /\ recipStatus' = recipStatus
          /\ tracking' = tracking
          /\ \A c \in Campaigns :
                (campStatus'[c] # campStatus[c] \/ campSentAt'[c] # campSentAt[c]
                   \/ cr'[c] # cr[c])
                => \E p \in Calls : StepOf(p) /\ camp[p] = c]_vars

C29_Witness ==
    \E p \in Calls :
        /\ camp[p] = "c1"
        /\ pc[p] = "returned"
        /\ wrote[p][1] = "skipped"
        /\ campStatus["c1"] = "sent"
        /\ campStatus["c2"] = "scheduled"
        /\ cr["c2"][1] = PendingRow

====
